---- MODULE Spec2Model ----
(***************************************************************************)
(* Verification model of libx::num::traits (src/src/num/traits.rs).       *)
(*                                                                         *)
(* Integer part: the BinaryInteger / FixedWidthInteger implementations    *)
(* for u8 and i8, at their real width.  The implementations for the wider *)
(* types are the same text with another type name.                        *)
(*                                                                         *)
(* Floating-point part: the FloatingPoint implementations for f32 and     *)
(* f64 over IEEE-754 binary interchange formats.  A value is its bit      *)
(* pattern (to_bits); arithmetic is round-to-nearest-even on decoded      *)
(* (sign, significand, exponent) triples.  The formats keep the layout of *)
(* f32/f64 with fewer exponent and significand bits, so that every bit    *)
(* pattern can be enumerated; the Exponent types keep their real widths.  *)
(***************************************************************************)
EXTENDS Integers, Sequences, FiniteSets, TLC

VARIABLES ity, a, b, iop, ires,
          fty, x, rule, fop, fres, fcls, fflag, guess, last_guess,
          other, lhs, rhs,
          list, lop, larg, lres

ivars == <<ity, a, b, iop, ires>>
fvars == <<fty, x, rule, fop, fres, fcls, fflag, guess, last_guess>>
ovars == <<other, lhs, rhs>>
lvars == <<list, lop, larg, lres>>
vars == <<ity, a, b, iop, ires,
          fty, x, rule, fop, fres, fcls, fflag, guess, last_guess,
          other, lhs, rhs,
          list, lop, larg, lres>>

(***************************************************************************)
(* Fixed-width integers: u8 and i8                                         *)
(***************************************************************************)

\* bit width of u8 and i8
BITS == 8

IntTypes == {"u8", "i8"}

Modulus == 2 ^ BITS

is_signed(ty) == ty = "i8"

MinOf(ty) == IF is_signed(ty) THEN -(2 ^ (BITS - 1)) ELSE 0

MaxOf(ty) == IF is_signed(ty) THEN 2 ^ (BITS - 1) - 1 ELSE 2 ^ BITS - 1

Values(ty) == MinOf(ty)..MaxOf(ty)

\* two's-complement bit pattern of a value, as a natural below 2^BITS
ToBits(v) == IF v < 0 THEN v + Modulus ELSE v

\* the value a bit pattern stands for in the type
FromBits(ty, p) == IF is_signed(ty) /\ p >= 2 ^ (BITS - 1) THEN p - Modulus ELSE p

SignBitOf(p) == p \div (2 ^ (BITS - 1))

Abs(v) == IF v < 0 THEN -v ELSE v

\* results of an operation: a (value, flag) pair, a boolean, or a panic
Pair(v, o) == [tag |-> "pair", val |-> v, flag |-> o]

Bool(o) == [tag |-> "bool", val |-> 0, flag |-> o]

Panic == [tag |-> "panic", val |-> 0, flag |-> FALSE]

NoResult == [tag |-> "none", val |-> 0, flag |-> FALSE]

\* core `/` on integers: truncates toward zero; panics on a zero divisor and
\* on MIN / -1 of a signed type
RawDiv(ty, l, r) ==
    IF r = 0 \/ (is_signed(ty) /\ l = MinOf(ty) /\ r = -1)
    THEN Panic
    ELSE LET q == Abs(l) \div Abs(r)
         IN  Pair(IF (l < 0) = (r < 0) THEN q ELSE -q, FALSE)

\* core `%` on integers: the remainder has the sign of the dividend; panics
\* on a zero divisor and on MIN % -1 of a signed type
RawRem(ty, l, r) ==
    IF r = 0 \/ (is_signed(ty) /\ l = MinOf(ty) /\ r = -1)
    THEN Panic
    ELSE LET m == Abs(l) % Abs(r)
         IN  Pair(IF l < 0 THEN -m ELSE m, FALSE)

\* overflowing_add: binary addition of the two bit patterns; the flag is the
\* carry out (unsigned) or a sign change the operands do not explain (signed)
overflowing_add(ty, l, r) ==
    LET s == ToBits(l) + ToBits(r)
        p == s % Modulus
    IN  Pair(FromBits(ty, p),
             IF is_signed(ty)
             THEN SignBitOf(ToBits(l)) = SignBitOf(ToBits(r))
                  /\ SignBitOf(p) # SignBitOf(ToBits(l))
             ELSE s >= Modulus)

\* overflowing_sub: binary subtraction of the bit patterns; the flag is the
\* borrow (unsigned) or a sign change the operands do not explain (signed)
overflowing_sub(ty, l, r) ==
    LET s == ToBits(l) - ToBits(r)
        p == s % Modulus
    IN  Pair(FromBits(ty, p),
             IF is_signed(ty)
             THEN SignBitOf(ToBits(l)) # SignBitOf(ToBits(r))
                  /\ SignBitOf(p) # SignBitOf(ToBits(l))
             ELSE s < 0)

\* overflowing_mul: the low BITS bits of the double-width product; the flag is
\* set when the high half is not the sign extension of the low half
overflowing_mul(ty, l, r) ==
    LET wide == 2 ^ (2 * BITS)
        ext(v) == IF v < 0 THEN v + wide ELSE v
        partial0 == ext(l) * (ext(r) % Modulus)
        partial1 == ((ext(l) % Modulus) * (ext(r) \div Modulus)) % Modulus
        prod == (partial0 + partial1 * Modulus) % wide
        lo == prod % Modulus
        hi == prod \div Modulus
    IN  Pair(FromBits(ty, lo),
             IF is_signed(ty)
             THEN hi # (IF SignBitOf(lo) = 1 THEN Modulus - 1 ELSE 0)
             ELSE hi # 0)

\* overflowing_div: panics on a zero divisor; MIN / -1 wraps to MIN
overflowing_div(ty, l, r) ==
    IF r = 0 THEN Panic
    ELSE IF is_signed(ty) /\ l = MinOf(ty) /\ r = -1 THEN Pair(l, TRUE)
    ELSE RawDiv(ty, l, r)

\* overflowing_rem: panics on a zero divisor; MIN % -1 is 0 with the flag set
overflowing_rem(ty, l, r) ==
    IF r = 0 THEN Panic
    ELSE IF is_signed(ty) /\ l = MinOf(ty) /\ r = -1 THEN Pair(0, TRUE)
    ELSE RawRem(ty, l, r)

\* adding_reporting_overflow that wraps and never reports
adding_never_reporting(ty, l, r) == Pair(overflowing_add(ty, l, r).val, FALSE)

adding_reporting_overflow(ty, l, r) == overflowing_add(ty, l, r)

subtracting_reporting_overflow(ty, l, r) == overflowing_sub(ty, l, r)

multiplied_reporting_overflow(ty, l, r) == overflowing_mul(ty, l, r)

\* divided_reporting_overflow without its test for a zero divisor
divided_unguarded(ty, l, r) == overflowing_div(ty, l, r)

divided_reporting_overflow(ty, l, r) ==
    IF r = 0 THEN Pair(0, TRUE) ELSE overflowing_div(ty, l, r)

remainder_reporting_overflow(ty, l, r) ==
    IF r = 0 THEN Pair(0, TRUE) ELSE overflowing_rem(ty, l, r)

is_multiple_of(ty, l, r) ==
    IF r = 0 THEN Bool(FALSE)
    ELSE LET m == RawRem(ty, l, r)
         IN  IF m.tag = "panic" THEN Panic ELSE Bool(m.val = 0)

\* a usize result
Count(n) == [tag |-> "count", val |-> n, flag |-> FALSE]

\* count_ones and leading_zeros of an unsigned value of BITS bits
count_ones(p) == Cardinality({i \in 0..(BITS - 1) : (p \div 2 ^ i) % 2 = 1})

leading_zeros(p) == BITS - Cardinality({i \in 0..(BITS - 1) : p >= 2 ^ i})

\* |v| as the unsigned type of the same width; MIN gives 2^(BITS-1)
unsigned_abs(v) == Abs(v)

\* u8 counts on self, i8 on self.unsigned_abs()
leading_zero_bit_count(ty, v) ==
    Count(leading_zeros(IF is_signed(ty) THEN unsigned_abs(v) ELSE v))

nonzero_bit_count(ty, v) ==
    Count(count_ones(IF is_signed(ty) THEN unsigned_abs(v) ELSE v))

IntIdle == /\ iop = "none"
           /\ ires = NoResult

IntInit == /\ ity \in IntTypes
           /\ a \in Values(ity)
           /\ b \in Values(ity)
           /\ IntIdle

IntDo(op, r) == /\ iop = "none"
                /\ iop' = op
                /\ ires' = r
                /\ UNCHANGED <<ity, a, b>>
                /\ UNCHANGED <<fvars, ovars, lvars>>

Adding == IntDo("adding", adding_reporting_overflow(ity, a, b))

Subtracting == IntDo("subtracting", subtracting_reporting_overflow(ity, a, b))

Multiplied == IntDo("multiplied", multiplied_reporting_overflow(ity, a, b))

Divided == IntDo("divided", divided_reporting_overflow(ity, a, b))

Remainder == IntDo("remainder", remainder_reporting_overflow(ity, a, b))

IsMultipleOf == IntDo("is_multiple_of", is_multiple_of(ity, a, b))

LeadingZeroBitCount ==
    IntDo("leading_zero_bit_count", leading_zero_bit_count(ity, a))

NonzeroBitCount == IntDo("nonzero_bit_count", nonzero_bit_count(ity, a))

(***************************************************************************)
(* collections::list::doubly_linked::List                                  *)
(* (src/src/collections/list/doubly_linked.rs)                             *)
(*                                                                         *)
(* list is the List struct together with the nodes it has allocated:       *)
(* nodes maps the address of each live node to its fields.                 *)
(***************************************************************************)

\* the null pointer, and the None of Option<*mut Node<T>>
null == 0

None == -1

\* Node::new
NodeNew(value) == [value |-> value, prev |-> null, next |-> null]

\* most elements held at once, greatest initial capacity, and the elements
\* are 1..MaxElem
MaxLen == 3

MaxCapacity == 5

MaxElem == 2

\* List::new and List::with_capacity
with_capacity(c) ==
    [nodes |-> <<>>, head |-> None, tail |-> None,
     length |-> 0, capacity |-> c]

new == with_capacity(0)

\* values returned by the methods
NoReturn == [tag |-> "none", val |-> 0]

Unit == [tag |-> "()", val |-> 0]

SomeOf(v) == [tag |-> "Some", val |-> v]

NoneOf == [tag |-> "None", val |-> 0]

Ok == [tag |-> "Ok", val |-> 0]

Err == [tag |-> "Err: Maximum capacity reached", val |-> 0]

ListIdle == /\ list = new
            /\ lop = "none"
            /\ larg = 0
            /\ lres = NoReturn

\* Box::into_raw(Box::new(node)): an address no live node has
Alloc(l) == CHOOSE n \in 1..MaxLen : n \notin DOMAIN l.nodes

\* the nodes after linking new_node, holding value, before old_head
LinkedBefore(l, new_node, value, old_head) ==
    [n \in DOMAIN l.nodes \cup {new_node} |->
        IF n = new_node
        THEN [value |-> value, prev |-> null, next |-> old_head]
        ELSE IF n = old_head THEN [l.nodes[n] EXCEPT !.prev = new_node]
        ELSE l.nodes[n]]

\* the nodes after linking new_node, holding value, after old_tail
LinkedAfter(l, new_node, value, old_tail) ==
    [n \in DOMAIN l.nodes \cup {new_node} |->
        IF n = new_node
        THEN [value |-> value, prev |-> old_tail, next |-> null]
        ELSE IF n = old_tail THEN [l.nodes[n] EXCEPT !.next = new_node]
        ELSE l.nodes[n]]

\* the nodes with a first node only
Single(l, new_node, value) ==
    [n \in DOMAIN l.nodes \cup {new_node} |->
        IF n = new_node THEN NodeNew(value) ELSE l.nodes[n]]

\* push_front without `(*old_head).prev = new_node`
push_front_unlinked(l, value) ==
    [nodes |-> IF l.head # None
               THEN [n \in DOMAIN l.nodes \cup {Alloc(l)} |->
                        IF n = Alloc(l)
                        THEN [value |-> value, prev |-> null, next |-> l.head]
                        ELSE l.nodes[n]]
               ELSE Single(l, Alloc(l), value),
     head |-> Alloc(l),
     tail |-> IF l.head # None THEN l.tail ELSE Alloc(l),
     length |-> l.length + 1,
     capacity |-> IF l.length >= l.capacity THEN l.capacity * 2
                  ELSE l.capacity]

push_front(l, value) ==
    [nodes |-> IF l.head # None
               THEN LinkedBefore(l, Alloc(l), value, l.head)
               ELSE Single(l, Alloc(l), value),
     head |-> Alloc(l),
     tail |-> IF l.head # None THEN l.tail ELSE Alloc(l),
     length |-> l.length + 1,
     capacity |-> IF l.length >= l.capacity THEN l.capacity * 2
                  ELSE l.capacity]

\* the capacity push_back starts from: 4 when it was 0
Started(c) == IF c = 0 THEN 4 ELSE c

push_back(l, value) ==
    [nodes |-> IF l.tail # None
               THEN LinkedAfter(l, Alloc(l), value, l.tail)
               ELSE Single(l, Alloc(l), value),
     head |-> IF l.tail # None THEN l.head ELSE Alloc(l),
     tail |-> Alloc(l),
     length |-> l.length + 1,
     capacity |-> IF l.length >= Started(l.capacity)
                  THEN Started(l.capacity) * 2
                  ELSE Started(l.capacity)]

push_front_within_capacity(l, value) ==
    IF l.length >= l.capacity THEN [list |-> l, ret |-> Err]
    ELSE [list |->
             [nodes |-> IF l.head # None
                        THEN LinkedBefore(l, Alloc(l), value, l.head)
                        ELSE Single(l, Alloc(l), value),
              head |-> Alloc(l),
              tail |-> IF l.head # None THEN l.tail ELSE Alloc(l),
              length |-> l.length + 1,
              capacity |-> l.capacity],
          ret |-> Ok]

\* push_back_within_capacity with `>` for `>=`
push_back_past_capacity(l, value) ==
    IF l.length > l.capacity THEN [list |-> l, ret |-> Err]
    ELSE [list |-> [push_back(l, value) EXCEPT !.capacity = l.capacity],
          ret |-> Ok]

push_back_within_capacity(l, value) ==
    IF l.length >= l.capacity THEN [list |-> l, ret |-> Err]
    ELSE [list |->
             [nodes |-> IF l.tail # None
                        THEN LinkedAfter(l, Alloc(l), value, l.tail)
                        ELSE Single(l, Alloc(l), value),
              head |-> IF l.tail # None THEN l.head ELSE Alloc(l),
              tail |-> Alloc(l),
              length |-> l.length + 1,
              capacity |-> l.capacity],
          ret |-> Ok]

\* the nodes after Box::from_raw(node) is dropped, the field of its
\* neighbour that pointed to it set to null
Unlinked(l, node, neighbour, field) ==
    [n \in DOMAIN l.nodes \ {node} |->
        IF n = neighbour
        THEN IF field = "prev" THEN [l.nodes[n] EXCEPT !.prev = null]
             ELSE [l.nodes[n] EXCEPT !.next = null]
        ELSE l.nodes[n]]

pop_front(l) ==
    IF l.head = None THEN [list |-> l, ret |-> NoneOf]
    ELSE [list |->
             [nodes |-> Unlinked(l, l.head, l.nodes[l.head].next, "prev"),
              head |-> IF l.nodes[l.head].next # null
                       THEN l.nodes[l.head].next ELSE None,
              tail |-> IF l.nodes[l.head].next # null THEN l.tail ELSE None,
              length |-> l.length - 1,
              capacity |-> l.capacity],
          ret |-> SomeOf(l.nodes[l.head].value)]

pop_back(l) ==
    IF l.tail = None THEN [list |-> l, ret |-> NoneOf]
    ELSE [list |->
             [nodes |-> Unlinked(l, l.tail, l.nodes[l.tail].prev, "next"),
              head |-> IF l.nodes[l.tail].prev # null THEN l.head ELSE None,
              tail |-> IF l.nodes[l.tail].prev # null
                       THEN l.nodes[l.tail].prev ELSE None,
              length |-> l.length - 1,
              capacity |-> l.capacity],
          ret |-> SomeOf(l.nodes[l.tail].value)]

len(l) == l.length

capacity(l) == l.capacity

front(l) == IF l.head = None THEN NoneOf ELSE SomeOf(l.nodes[l.head].value)

back(l) == IF l.tail = None THEN NoneOf ELSE SomeOf(l.nodes[l.tail].value)

\* Index::index for index < length: the node reached from head by
\* following next index times
RECURSIVE Follow(_, _, _)
Follow(l, current, steps) ==
    IF steps = 0 THEN current
    ELSE Follow(l, l.nodes[current].next, steps - 1)

index(l, i) == l.nodes[Follow(l, l.head, i)].value

\* a list made by with_capacity (new is with_capacity(0)); the numeric
\* state is idle
InitList == /\ \E c \in 0..MaxCapacity : list = with_capacity(c)
            /\ lop = "none"
            /\ larg = 0
            /\ lres = NoReturn
            /\ ity = "u8"
            /\ a = 0
            /\ b = 0
            /\ IntIdle
            /\ fty = "f32"
            /\ x = 0
            /\ rule = "none"
            /\ fop = "none"
            /\ fres = 0
            /\ fcls = "none"
            /\ fflag = FALSE
            /\ guess = 0
            /\ last_guess = 0
            /\ other = 0
            /\ lhs = 0
            /\ rhs = 0

\* a call that returns nothing
ListDo(op, value, l) ==
    /\ lop' = op
    /\ larg' = value
    /\ list' = l
    /\ lres' = Unit
    /\ UNCHANGED <<ivars, fvars, ovars>>

\* a call that returns a value
ListGet(op, value, r) ==
    /\ lop' = op
    /\ larg' = value
    /\ list' = r.list
    /\ lres' = r.ret
    /\ UNCHANGED <<ivars, fvars, ovars>>

PushFront ==
    \E value \in 1..MaxElem :
        /\ len(list) < MaxLen
        /\ ListDo("push_front", value, push_front(list, value))

PushBack ==
    \E value \in 1..MaxElem :
        /\ len(list) < MaxLen
        /\ ListDo("push_back", value, push_back(list, value))

PushFrontWithinCapacity ==
    \E value \in 1..MaxElem :
        /\ len(list) < MaxLen \/ len(list) >= capacity(list)
        /\ ListGet("push_front_within_capacity", value,
                   push_front_within_capacity(list, value))

PushBackWithinCapacity ==
    \E value \in 1..MaxElem :
        /\ len(list) < MaxLen \/ len(list) >= capacity(list)
        /\ ListGet("push_back_within_capacity", value,
                   push_back_within_capacity(list, value))

PopFront == ListGet("pop_front", 0, pop_front(list))

PopBack == ListGet("pop_back", 0, pop_back(list))

NextList == \/ PushFront
            \/ PushBack
            \/ PushFrontWithinCapacity
            \/ PushBackWithinCapacity
            \/ PopFront
            \/ PopBack

SpecList == InitList /\ [][NextList]_vars

\* the lists that only push_front and push_back have acted on
NextPush == \/ PushFront
            \/ PushBack

SpecPush == InitList /\ [][NextPush]_vars

(***************************************************************************)
(* Floating point: bit patterns and IEEE-754 arithmetic                    *)
(***************************************************************************)

OperandIdle == other = 0 /\ lhs = 0 /\ rhs = 0


\* exponent and trailing-significand field widths of the two formats
ExpBits32 == 6

ManBits32 == 3

ExpBits64 == 7

ManBits64 == 4

\* widths of the Exponent types: i32 for f32, i64 for f64
I32_BITS == 32

I64_BITS == 64

FloatTypes == {"f32", "f64"}

EB(t) == IF t = "f32" THEN ExpBits32 ELSE ExpBits64

MB(t) == IF t = "f32" THEN ManBits32 ELSE ManBits64

ExponentBits(t) == IF t = "f32" THEN I32_BITS ELSE I64_BITS

Bias(t) == 2 ^ (EB(t) - 1) - 1

ExpMax(t) == 2 ^ EB(t) - 1

ManSize(t) == 2 ^ MB(t)

SignMask(t) == 2 ^ (EB(t) + MB(t))

\* exponent of the unit of a subnormal significand
EMin(t) == 1 - Bias(t) - MB(t)

Patterns(t) == 0..(2 * SignMask(t) - 1)

SignOf(t, p) == p \div SignMask(t)

ExpOf(t, p) == (p % SignMask(t)) \div ManSize(t)

ManOf(t, p) == p % ManSize(t)

Pack(t, s, e, m) == s * SignMask(t) + e * ManSize(t) + m

ZERO(t) == Pack(t, 0, 0, 0)

NEG_ZERO(t) == Pack(t, 1, 0, 0)

INFINITY(t) == Pack(t, 0, ExpMax(t), 0)

NEG_INFINITY(t) == Pack(t, 1, ExpMax(t), 0)

\* the quiet NaN of the core library: all exponent bits and the top
\* significand bit set
NAN(t) == Pack(t, 0, ExpMax(t), ManSize(t) \div 2)

\* largest finite value
MAX(t) == Pack(t, 0, ExpMax(t) - 1, ManSize(t) - 1)

\* decoded finite value: (-1)^SignOf * Sig * 2^Ex
Sig(t, p) == IF ExpOf(t, p) = 0 THEN ManOf(t, p) ELSE ManSize(t) + ManOf(t, p)

Ex(t, p) == (IF ExpOf(t, p) = 0 THEN 1 ELSE ExpOf(t, p)) - Bias(t) - MB(t)

RECURSIVE BitLen(_)
BitLen(n) == IF n = 0 THEN 0 ELSE 1 + BitLen(n \div 2)

\* In the definitions below, CHOOSE r \in {F(v) : v \in {e}} : TRUE is F(e)
\* with e evaluated once, as a `let v = e;` of the code is.

\* significand n < 2^(MB+1) with unit 2^q, q >= EMin, as a bit pattern;
\* exponents beyond the format give infinity
Encode(t, s, n, q) ==
    IF n < ManSize(t) THEN Pack(t, s, 0, n)
    ELSE IF q - EMin(t) + 1 >= ExpMax(t) THEN Pack(t, s, ExpMax(t), 0)
    ELSE Pack(t, s, q - EMin(t) + 1, n - ManSize(t))

\* m \div 2^k, rounded up when the part cut off (m % 2^k, plus a little more
\* when sticky) is more than half a unit, or is half a unit and m \div 2^k
\* is odd
ShiftRound(m, k, sticky) ==
    IF k <= 0 THEN m * 2 ^ (-k)
    ELSE IF m % 2 ^ k > 2 ^ (k - 1)
            \/ (m % 2 ^ k = 2 ^ (k - 1) /\ (sticky \/ (m \div 2 ^ k) % 2 = 1))
    THEN m \div 2 ^ k + 1
    ELSE m \div 2 ^ k

\* exponent of the unit in which m * 2^e is rounded: that of a significand
\* of MB+1 bits, but not below EMin
UnitExp(t, m, e) ==
    IF e + BitLen(m) - (MB(t) + 1) > EMin(t)
    THEN e + BitLen(m) - (MB(t) + 1) ELSE EMin(t)

\* the value (-1)^s * m * 2^e (plus less than one unit of m when sticky),
\* rounded to nearest, ties to even
RoundPack(t, s, m, e, sticky) ==
    CHOOSE r \in
        {IF mv = 0 THEN Pack(t, sv, 0, 0)
         ELSE IF q - ev > BitLen(mv) THEN Pack(t, sv, 0, 0)
         ELSE CHOOSE r2 \in
                 {IF n = 2 * ManSize(t) THEN Encode(t, sv, ManSize(t), q + 1)
                  ELSE Encode(t, sv, n, q) :
                      n \in {ShiftRound(mv, q - ev, sticky)}} : TRUE :
             sv \in {s}, mv \in {m}, ev \in {e}, q \in {UnitExp(t, m, e)}} : TRUE

\* the literals 1.0, 2.0 and 0.5
ONE(t) == Pack(t, 0, Bias(t), 0)

TWO(t) == Pack(t, 0, Bias(t) + 1, 0)

HALF(t) == Pack(t, 0, Bias(t) - 1, 0)

\* the literal 0.1 (107374182 * 2^-30 and a little more), per type
TENTH == [t \in FloatTypes |-> RoundPack(t, 0, 107374182, -30, TRUE)]

StdIsNan(t, p) == ExpOf(t, p) = ExpMax(t) /\ ManOf(t, p) # 0

StdIsInfinite(t, p) == ExpOf(t, p) = ExpMax(t) /\ ManOf(t, p) = 0

\* the inherent is_finite of the primitive type
StdIsFinite(t, p) == ~StdIsNan(t, p) /\ ~StdIsInfinite(t, p)

is_sign_negative(t, p) == SignOf(t, p) = 1

\* position of a non-NaN value in the numeric order; both zeros share one
Key(t, p) == IF SignOf(t, p) = 1 THEN -(p % SignMask(t)) ELSE p

\* partial_cmp: unordered when either operand is NaN
Ordering(t, p, q) ==
    IF StdIsNan(t, p) \/ StdIsNan(t, q) THEN "unordered"
    ELSE IF Key(t, p) < Key(t, q) THEN "less"
    ELSE IF Key(t, p) > Key(t, q) THEN "greater"
    ELSE "equal"

Compare(t, p, q) ==
    CHOOSE r \in {Ordering(t, pv, qv) : pv \in {p}, qv \in {q}} : TRUE

\* the operators ==, <, <=, > and >= on floats
FEq(t, p, q) == Compare(t, p, q) = "equal"

FLt(t, p, q) == Compare(t, p, q) = "less"

FLe(t, p, q) == Compare(t, p, q) \in {"less", "equal"}

FGt(t, p, q) == Compare(t, p, q) = "greater"

FGe(t, p, q) == Compare(t, p, q) \in {"greater", "equal"}

FNeg(t, p) == IF p >= SignMask(t) THEN p - SignMask(t) ELSE p + SignMask(t)

FAbs(t, p) == p % SignMask(t)

\* signed significand
SSig(t, p) == IF SignOf(t, p) = 1 THEN -Sig(t, p) ELSE Sig(t, p)

\* hi + lo for finite nonzero hi, lo with Ex(hi) >= Ex(lo): the exact sum
\* in units of 2^Ex(lo), rounded; an operand below an eighth of the other's
\* unit does not change it
Aligned(t, hi, lo) ==
    IF Ex(t, hi) - Ex(t, lo) > MB(t) + 3 THEN hi
    ELSE CHOOSE r \in
            {IF v = 0 THEN ZERO(t)
             ELSE RoundPack(t, IF v < 0 THEN 1 ELSE 0, Abs(v), Ex(t, lo), FALSE) :
                 v \in {SSig(t, hi) * 2 ^ (Ex(t, hi) - Ex(t, lo)) + SSig(t, lo)}} : TRUE

\* the sum p + q, correctly rounded
Sum(t, p, q) ==
    IF StdIsNan(t, p) \/ StdIsNan(t, q) THEN NAN(t)
    ELSE IF StdIsInfinite(t, p)
         THEN IF StdIsInfinite(t, q) /\ SignOf(t, p) # SignOf(t, q)
              THEN NAN(t) ELSE p
    ELSE IF StdIsInfinite(t, q) THEN q
    ELSE IF Sig(t, p) = 0 /\ Sig(t, q) = 0
         THEN IF SignOf(t, p) = 1 /\ SignOf(t, q) = 1
              THEN NEG_ZERO(t) ELSE ZERO(t)
    ELSE IF Sig(t, p) = 0 THEN q
    ELSE IF Sig(t, q) = 0 THEN p
    ELSE IF Ex(t, p) >= Ex(t, q) THEN Aligned(t, p, q)
    ELSE Aligned(t, q, p)

\* p + q
FAdd(t, p, q) == CHOOSE r \in {Sum(t, pv, qv) : pv \in {p}, qv \in {q}} : TRUE

\* p - q
FSub(t, p, q) ==
    CHOOSE r \in {Sum(t, pv, qv) : pv \in {p}, qv \in {FNeg(t, q)}} : TRUE

\* the quotient p / q, correctly rounded: the significands are divided with
\* MB+3 bits to spare, a remainder making the quotient sticky
Quotient(t, p, q) ==
    IF StdIsNan(t, p) \/ StdIsNan(t, q) THEN NAN(t)
    ELSE IF StdIsInfinite(t, p)
         THEN IF StdIsInfinite(t, q) THEN NAN(t)
              ELSE Pack(t, (SignOf(t, p) + SignOf(t, q)) % 2, ExpMax(t), 0)
    ELSE IF StdIsInfinite(t, q)
         THEN Pack(t, (SignOf(t, p) + SignOf(t, q)) % 2, 0, 0)
    ELSE IF Sig(t, q) = 0
         THEN IF Sig(t, p) = 0 THEN NAN(t)
              ELSE Pack(t, (SignOf(t, p) + SignOf(t, q)) % 2, ExpMax(t), 0)
    ELSE RoundPack(t, (SignOf(t, p) + SignOf(t, q)) % 2,
                   (Sig(t, p) * 2 ^ (2 * MB(t) + 4)) \div Sig(t, q),
                   Ex(t, p) - Ex(t, q) - (2 * MB(t) + 4),
                   (Sig(t, p) * 2 ^ (2 * MB(t) + 4)) % Sig(t, q) # 0)

\* p / q
FDiv(t, p, q) ==
    CHOOSE r \in {Quotient(t, pv, qv) : pv \in {p}, qv \in {q}} : TRUE

\* the product p * q, correctly rounded
Product(t, p, q) ==
    IF StdIsNan(t, p) \/ StdIsNan(t, q) THEN NAN(t)
    ELSE IF StdIsInfinite(t, p) \/ StdIsInfinite(t, q)
         THEN IF Sig(t, p) = 0 \/ Sig(t, q) = 0 THEN NAN(t)
              ELSE Pack(t, (SignOf(t, p) + SignOf(t, q)) % 2, ExpMax(t), 0)
    ELSE RoundPack(t, (SignOf(t, p) + SignOf(t, q)) % 2,
                   Sig(t, p) * Sig(t, q), Ex(t, p) + Ex(t, q), FALSE)

\* p * q
FMul(t, p, q) ==
    CHOOSE r \in {Product(t, pv, qv) : pv \in {p}, qv \in {q}} : TRUE

\* values of the Exponent type: MAX, MIN, or (-1)^neg * m * 2^e in between
IntMax == [kind |-> "max", neg |-> FALSE, m |-> 0, e |-> 0]

IntMin == [kind |-> "min", neg |-> TRUE, m |-> 0, e |-> 0]

IntVal(neg, m, e) == [kind |-> "val", neg |-> neg /\ m # 0, m |-> m, e |-> e]

\* `self as Self::Exponent`: truncates toward zero, saturates at the bounds
\* of the integer type, NaN gives 0
AsExponent(t, p) ==
    IF StdIsNan(t, p) THEN IntVal(FALSE, 0, 0)
    ELSE IF StdIsInfinite(t, p)
            \/ (Sig(t, p) # 0 /\ BitLen(Sig(t, p)) + Ex(t, p) > ExponentBits(t) - 1)
         THEN IF SignOf(t, p) = 1 THEN IntMin ELSE IntMax
    ELSE IF Ex(t, p) >= 0 THEN IntVal(SignOf(t, p) = 1, Sig(t, p), Ex(t, p))
    ELSE IF -Ex(t, p) >= BitLen(Sig(t, p)) THEN IntVal(FALSE, 0, 0)
    ELSE IntVal(SignOf(t, p) = 1, Sig(t, p) \div 2 ^ (-Ex(t, p)), 0)

\* `i as Self` for i of the Exponent type, rounded to nearest, ties to even:
\* MAX is 2^(w-1) - 1, its top MB+2 bits all ones and ones below them;
\* MIN is -2^(w-1)
ExponentAsFloat(t, i) ==
    RoundPack(t,
              IF i.neg THEN 1 ELSE 0,
              IF i.kind = "max" THEN 2 ^ (MB(t) + 2) - 1
              ELSE IF i.kind = "min" THEN 1 ELSE i.m,
              IF i.kind = "max" THEN ExponentBits(t) - 1 - (MB(t) + 2)
              ELSE IF i.kind = "min" THEN ExponentBits(t) - 1 ELSE i.e,
              i.kind = "max" /\ ExponentBits(t) - 1 > MB(t) + 2)

\* `(self as Self::Exponent) as Self`
Cast(t, p) ==
    CHOOSE r \in {ExponentAsFloat(t, i) : i \in {AsExponent(t, p)}} : TRUE

(***************************************************************************)
(* impl FloatingPoint for f32 / f64                                        *)
(***************************************************************************)

is_infinite(t, p) == StdIsInfinite(t, p)

is_nan(t, p) == StdIsNan(t, p)

is_normal(t, p) == ExpOf(t, p) # 0 /\ ExpOf(t, p) # ExpMax(t)

is_signaling_nan(t, p) == FALSE

is_subnormal(t, p) == ExpOf(t, p) = 0 /\ ManOf(t, p) # 0

\* is_zero that compares bit patterns with 0.0, missing -0.0
is_zero_by_bits(t, p) == p = ZERO(t)

is_zero(t, p) == FEq(t, p, ZERO(t))

\* is_finite as the standard library defines it: neither NaN nor infinite
is_finite_std(t, p) == StdIsFinite(t, p)

is_finite(t, p) == is_normal(t, p) \/ is_zero(t, p)

signaling_nan(t) == NAN(t)

ceil(t, p) ==
    IF is_nan(t, p) THEN p
    ELSE IF is_infinite(t, p) THEN p
    ELSE IF FGe(t, p, ZERO(t))
         THEN FAdd(t, Cast(t, p),
                   IF FEq(t, p, Cast(t, p)) THEN ZERO(t) ELSE ONE(t))
    ELSE Cast(t, p)

floor(t, p) ==
    IF is_nan(t, p) THEN p
    ELSE IF is_infinite(t, p) THEN p
    ELSE IF FGe(t, p, ZERO(t)) THEN Cast(t, p)
    ELSE CHOOSE r \in
            {IF FEq(t, p, truncated) THEN truncated
             ELSE FSub(t, truncated, ONE(t)) :
                 truncated \in {Cast(t, p)}} : TRUE

fract(t, p) == FSub(t, p, floor(t, p))

trunc(t, p) == FSub(t, p, fract(t, p))


Classes == {"NegativeInfinity", "NegativeNormal", "NegativeSubnormal",
            "NegativeZero", "PositiveInfinity", "PositiveNormal",
            "PositiveSubnormal", "PositiveZero", "QuietNaN", "SignalingNaN"}

floating_point_class(t, p) ==
    IF is_nan(t, p)
    THEN IF is_signaling_nan(t, p) THEN "SignalingNaN" ELSE "QuietNaN"
    ELSE IF is_infinite(t, p)
    THEN IF is_sign_negative(t, p) THEN "NegativeInfinity" ELSE "PositiveInfinity"
    ELSE IF is_zero(t, p)
    THEN IF is_sign_negative(t, p) THEN "NegativeZero" ELSE "PositiveZero"
    ELSE IF is_normal(t, p)
    THEN IF is_sign_negative(t, p) THEN "NegativeNormal" ELSE "PositiveNormal"
    ELSE IF is_subnormal(t, p)
    THEN IF is_sign_negative(t, p) THEN "NegativeSubnormal" ELSE "PositiveSubnormal"
    ELSE "panic"

next_down(t, p) ==
    IF is_nan(t, p) THEN p
    ELSE IF is_infinite(t, p)
    THEN IF is_sign_negative(t, p) THEN NEG_INFINITY(t) ELSE INFINITY(t)
    ELSE IF FEq(t, p, ZERO(t))
    THEN IF is_sign_negative(t, p) THEN FNeg(t, ZERO(t)) ELSE ZERO(t)
    ELSE IF is_sign_negative(t, p) THEN p + 1 ELSE p - 1

next_up(t, p) ==
    IF is_nan(t, p) THEN p
    ELSE IF is_infinite(t, p)
    THEN IF is_sign_negative(t, p) THEN NEG_INFINITY(t) ELSE INFINITY(t)
    ELSE IF FEq(t, p, ZERO(t))
    THEN IF is_sign_negative(t, p) THEN FNeg(t, ZERO(t)) ELSE ZERO(t)
    ELSE IF is_sign_negative(t, p) THEN p - 1 ELSE p + 1

\* the bit pattern ulp subtracts self from
next_bits(t, p) ==
    IF FEq(t, p, ZERO(t)) THEN 1
    ELSE (p + 1) % (2 * SignMask(t))

ulp(t, p) ==
    IF StdIsNan(t, p) \/ StdIsInfinite(t, p) THEN p
    ELSE FAbs(t, FSub(t, next_bits(t, p), p))

\* Self::EPSILON
ulp_of_one(t) == Pack(t, 0, Bias(t) - MB(t), 0)

\* (self - other).abs() < 0.1
is_equal_to(t, p, q) == FLt(t, FAbs(t, FSub(t, p, q)), TENTH[t])

\* self.is_finite() && other.is_finite(): self is a reference, so the call
\* on it is the trait's is_finite; other is a value, so the call on it is the
\* primitive type's inherent is_finite
is_totally_ordered_below_or_equal_to(t, p, q) ==
    is_finite(t, p) /\ StdIsFinite(t, q)

\* f32: self + lhs * rhs; f64: lhs * rhs
adding_product(t, p, l, r) ==
    IF t = "f32" THEN FAdd(t, p, FMul(t, l, r)) ELSE FMul(t, l, r)

\* f32: *self += lhs * rhs; f64: *self = lhs * rhs
add_product(t, p, l, r) ==
    IF t = "f32" THEN FAdd(t, p, FMul(t, l, r)) ELSE FMul(t, l, r)

\* rounded, from its two locals
RoundedFrom(t, p, int_part, frac_part) ==
    IF FEq(t, frac_part, HALF(t)) \/ FEq(t, frac_part, FNeg(t, HALF(t)))
    THEN IF FGt(t, p, ZERO(t)) THEN FAdd(t, int_part, ONE(t))
         ELSE FSub(t, int_part, ONE(t))
    ELSE IF FGe(t, frac_part, HALF(t)) THEN FAdd(t, int_part, ONE(t))
    ELSE int_part

\* int_part is self.trunc(); frac_part is self.fract() in f32 and
\* self - int_part in f64
rounded(t, p) ==
    CHOOSE r \in
        {CHOOSE r2 \in
            {RoundedFrom(t, p, int_part, frac_part) :
                frac_part \in {IF t = "f32" THEN fract(t, p)
                               ELSE FSub(t, p, int_part)}} : TRUE :
            int_part \in {trunc(t, p)}} : TRUE

Rules == {"AwayFromZero", "Down", "ToNearestOrAwayFromZero",
          "ToNearestOrEven", "TowardZero", "Up"}

AwayFromZero(t, p) ==
    IF FGt(t, p, ZERO(t)) THEN ceil(t, p)
    ELSE IF FLt(t, p, ZERO(t)) THEN floor(t, p)
    ELSE p

\* |fract - c| < 0.1
NearTie(t, p, c) == FLt(t, FAbs(t, FSub(t, fract(t, p), c)), TENTH[t])

round_with(t, p, r) ==
    CASE r = "AwayFromZero" -> AwayFromZero(t, p)
      [] r = "Down" -> floor(t, p)
      [] r = "ToNearestOrAwayFromZero" ->
            IF is_nan(t, p) THEN p
            ELSE IF NearTie(t, p, HALF(t)) \/ NearTie(t, p, FNeg(t, HALF(t)))
                 THEN AwayFromZero(t, p)
            ELSE rounded(t, p)
      [] r = "ToNearestOrEven" -> IF is_nan(t, p) THEN p ELSE rounded(t, p)
      [] r = "TowardZero" -> trunc(t, p)
      [] r = "Up" -> ceil(t, p)

rounded_with(t, p, r) ==
    CASE r = "AwayFromZero" -> AwayFromZero(t, p)
      [] r = "Down" -> floor(t, p)
      [] r = "ToNearestOrAwayFromZero" ->
            IF is_nan(t, p) THEN p
            ELSE IF NearTie(t, p, HALF(t)) \/ NearTie(t, p, HALF(t))
                 THEN AwayFromZero(t, p)
            ELSE rounded(t, p)
      [] r = "ToNearestOrEven" -> IF is_nan(t, p) THEN p ELSE rounded(t, p)
      [] r = "TowardZero" -> trunc(t, p)
      [] r = "Up" -> ceil(t, p)

\* the tolerance literals of square_root: 1e-6 (f32) and 0.0001 (f64),
\* as the nearest value of the format
Tolerance ==
    [t \in FloatTypes |->
        IF t = "f32" THEN RoundPack(t, 0, 1099512, -40, TRUE)
        ELSE RoundPack(t, 0, 109951163, -40, TRUE)]

\* a step that drops the averaging with the previous guess
improve_without_averaging(t, p, g) == FDiv(t, p, g)

\* square_root's loop condition
Continue(t, g, lg) == FGt(t, FAbs(t, FSub(t, g, lg)), Tolerance[t])

\* one Newton step
Improve(t, p, g) == FDiv(t, FAdd(t, g, FDiv(t, p, g)), TWO(t))

FloatIdle == /\ fty = "f32"
             /\ x = 0
             /\ rule = "none"
             /\ fop = "none"
             /\ fres = 0
             /\ fcls = "none"
             /\ fflag = FALSE
             /\ guess = 0
             /\ last_guess = 0

InitFloat == /\ fty \in FloatTypes
             /\ x \in Patterns(fty)
             /\ rule = "none"
             /\ fop = "none"
             /\ fres = 0
             /\ fcls = "none"
             /\ fflag = FALSE
             /\ guess = 0
             /\ last_guess = 0
             /\ ity = "u8"
             /\ a = 0
             /\ b = 0
             /\ IntIdle
             /\ OperandIdle
             /\ ListIdle

\* a method of one argument called on x, returning a value
FloatDo(op, r) == /\ fop = "none"
                  /\ fop' = op
                  /\ fres' = r
                  /\ UNCHANGED <<fty, x, rule, fcls, fflag, guess, last_guess>>
                  /\ UNCHANGED <<ivars, ovars, lvars>>

Ceil == FloatDo("ceil", ceil(fty, x))

Floor == FloatDo("floor", floor(fty, x))

Fract == FloatDo("fract", fract(fty, x))

Trunc == FloatDo("trunc", trunc(fty, x))

NextDown == FloatDo("next_down", next_down(fty, x))

NextUp == FloatDo("next_up", next_up(fty, x))

Rounded == FloatDo("rounded", rounded(fty, x))

\* round(&mut self): *self = self.rounded()
Round == FloatDo("round", rounded(fty, x))

SignalingNan == FloatDo("signaling_nan", signaling_nan(fty))

FloatingPointClass ==
    /\ fop = "none"
    /\ fop' = "floating_point_class"
    /\ fcls' = floating_point_class(fty, x)
    /\ UNCHANGED <<fty, x, rule, fres, fflag, guess, last_guess>>
    /\ UNCHANGED <<ivars, ovars, lvars>>

IsSignalingNan ==
    /\ fop = "none"
    /\ fop' = "is_signaling_nan"
    /\ fflag' = is_signaling_nan(fty, x)
    /\ UNCHANGED <<fty, x, rule, fres, fcls, guess, last_guess>>
    /\ UNCHANGED <<ivars, ovars, lvars>>

RoundedWith ==
    \E r \in Rules :
        /\ fop = "none"
        /\ fop' = "rounded_with"
        /\ rule' = r
        /\ fres' = rounded_with(fty, x, r)
        /\ UNCHANGED <<fty, x, fcls, fflag, guess, last_guess>>
        /\ UNCHANGED <<ivars, ovars, lvars>>

RoundWith ==
    \E r \in Rules :
        /\ fop = "none"
        /\ fop' = "round_with"
        /\ rule' = r
        /\ fres' = round_with(fty, x, r)
        /\ UNCHANGED <<fty, x, fcls, fflag, guess, last_guess>>
        /\ UNCHANGED <<ivars, ovars, lvars>>

\* square_root up to the loop: the early returns, or the first guess
SquareRootEnter ==
    /\ fop = "none"
    /\ IF FLt(fty, x, ZERO(fty))
       THEN fop' = "square_root" /\ fres' = NAN(fty) /\ UNCHANGED <<guess, last_guess>>
       ELSE IF FEq(fty, x, ZERO(fty))
       THEN fop' = "square_root" /\ fres' = ZERO(fty) /\ UNCHANGED <<guess, last_guess>>
       ELSE /\ fop' = "square_root_loop"
            /\ guess' = FDiv(fty, x, TWO(fty))
            /\ last_guess' = ZERO(fty)
            /\ UNCHANGED fres
    /\ UNCHANGED <<fty, x, rule, fcls, fflag>>
    /\ UNCHANGED <<ivars, ovars, lvars>>

\* one iteration of the while loop
SquareRootIterate ==
    /\ fop = "square_root_loop"
    /\ Continue(fty, guess, last_guess)
    /\ last_guess' = guess
    /\ guess' = Improve(fty, x, guess)
    /\ UNCHANGED <<fty, x, rule, fop, fres, fcls, fflag>>
    /\ UNCHANGED <<ivars, ovars, lvars>>

\* the loop condition fails: return guess
SquareRootReturn ==
    /\ fop = "square_root_loop"
    /\ ~Continue(fty, guess, last_guess)
    /\ fop' = "square_root"
    /\ fres' = guess
    /\ UNCHANGED <<fty, x, rule, fcls, fflag, guess, last_guess>>
    /\ UNCHANGED <<ivars, ovars, lvars>>

IsFinite ==
    /\ fop = "none"
    /\ fop' = "is_finite"
    /\ fflag' = is_finite(fty, x)
    /\ UNCHANGED <<fty, x, rule, fres, fcls, guess, last_guess>>
    /\ UNCHANGED <<ivars, ovars, lvars>>

NextFloat == \/ Ceil
             \/ Floor
             \/ Fract
             \/ Trunc
             \/ FloatingPointClass
             \/ IsSignalingNan
             \/ SignalingNan
             \/ NextDown
             \/ NextUp
             \/ Round
             \/ Rounded
             \/ RoundedWith
             \/ RoundWith
             \/ SquareRootEnter
             \/ SquareRootIterate
             \/ SquareRootReturn

SpecFloat == InitFloat /\ [][NextFloat]_vars

\* a call of square_root alone; the call is sequential code, so a step that
\* is enabled is taken
NextSquareRoot == \/ SquareRootEnter
                  \/ SquareRootIterate
                  \/ SquareRootReturn

SpecSquareRoot == /\ InitFloat
                  /\ [][NextSquareRoot]_vars
                  /\ WF_vars(NextSquareRoot)

\* operands of the three-argument methods: zeros, 1.0, 1.5, 2.0, 3.0, the
\* least subnormal, infinities and NaN, of both signs
ProductOperands(t) ==
    {p \in Patterns(t) :
        /\ ExpOf(t, p) \in {0, Bias(t), Bias(t) + 1, ExpMax(t)}
        /\ ManOf(t, p) \in {0, 1, ManSize(t) \div 2}}

InitProduct == /\ fty \in FloatTypes
               /\ x \in ProductOperands(fty)
               /\ lhs \in ProductOperands(fty)
               /\ rhs \in ProductOperands(fty)
               /\ other = 0
               /\ rule = "none"
               /\ fop = "none"
               /\ fres = 0
               /\ fcls = "none"
               /\ fflag = FALSE
               /\ guess = 0
               /\ last_guess = 0
               /\ ity = "u8"
               /\ a = 0
               /\ b = 0
               /\ IntIdle
               /\ ListIdle

AddingProduct == FloatDo("adding_product", adding_product(fty, x, lhs, rhs))

AddProduct == FloatDo("add_product", add_product(fty, x, lhs, rhs))

NextProduct == AddingProduct \/ AddProduct

SpecProduct == InitProduct /\ [][NextProduct]_vars

\* operands of the two-argument methods: the least and greatest exponents
\* and those around 1.0, with the least, middle and greatest significands
PairOperands(t) ==
    {p \in Patterns(t) :
        /\ ExpOf(t, p) \in {0, 1, Bias(t) - 1, Bias(t), Bias(t) + 1,
                            ExpMax(t) - 1, ExpMax(t)}
        /\ ManOf(t, p) \in {0, 1, ManSize(t) \div 2, ManSize(t) - 1}}

InitPair == /\ fty \in FloatTypes
            /\ x \in PairOperands(fty)
            /\ other \in PairOperands(fty)
            /\ lhs = 0
            /\ rhs = 0
            /\ rule = "none"
            /\ fop = "none"
            /\ fres = 0
            /\ fcls = "none"
            /\ fflag = FALSE
            /\ guess = 0
            /\ last_guess = 0
            /\ ity = "u8"
            /\ a = 0
            /\ b = 0
            /\ IntIdle
            /\ ListIdle

\* a method of two arguments returning a bool
FloatTest(op, r) ==
    /\ fop = "none"
    /\ fop' = op
    /\ fflag' = r
    /\ UNCHANGED <<fty, x, rule, fres, fcls, guess, last_guess>>
    /\ UNCHANGED <<ivars, ovars, lvars>>

IsEqualTo == FloatTest("is_equal_to", is_equal_to(fty, x, other))

IsTotallyOrderedBelowOrEqualTo ==
    FloatTest("is_totally_ordered_below_or_equal_to",
              is_totally_ordered_below_or_equal_to(fty, x, other))

NextPair == IsEqualTo \/ IsTotallyOrderedBelowOrEqualTo

SpecPair == InitPair /\ [][NextPair]_vars

Ulp == FloatDo("ulp", ulp(fty, x))

UlpOfOne == FloatDo("ulp_of_one", ulp_of_one(fty))

\* the queries on one value
NextQuery == \/ IsFinite
             \/ Ulp
             \/ UlpOfOne
             \/ IsSignalingNan
             \/ FloatingPointClass

SpecQuery == InitFloat /\ [][NextQuery]_vars

InitInt == IntInit /\ FloatIdle /\ OperandIdle /\ ListIdle

NextInt == \/ Adding
           \/ Subtracting
           \/ Multiplied
           \/ Divided
           \/ Remainder
           \/ IsMultipleOf
           \/ LeadingZeroBitCount
           \/ NonzeroBitCount

SpecInt == InitInt /\ [][NextInt]_vars

(***************************************************************************)
(* Properties                                                              *)
(***************************************************************************)

\* the exact result of an integer operation on the operands
Exact(op, l, r) ==
    CASE op = "adding" -> l + r
      [] op = "subtracting" -> l - r
      [] op = "multiplied" -> l * r

\* v reduced modulo 2^BITS into the range of the type
Wrap(ty, v) == ((v - MinOf(ty)) % Modulus) + MinOf(ty)

\* C1: adding/subtracting/multiplied_reporting_overflow return the exact
\* result wrapped modulo 2^w into the type's range, and a flag that is true
\* exactly when the exact result lies outside [MIN, MAX].
C1_OverflowReporting ==
    iop \in {"adding", "subtracting", "multiplied"} =>
        ires = Pair(Wrap(ity, Exact(iop, a, b)), Exact(iop, a, b) \notin Values(ity))

C1_Witness ==
    /\ iop = "adding" /\ ity = "u8" /\ a = MaxOf("u8") /\ b = 1
    /\ ires = Pair(0, TRUE)

\* C2: divided/remainder_reporting_overflow never fault, whatever the
\* operands (MIN and -1 included), and give (0, true) for a zero divisor.
C2_DivisionNeverFaults ==
    iop \in {"divided", "remainder"} =>
        /\ ires.tag = "pair"
        /\ b = 0 => ires = Pair(0, TRUE)

C2_Witness ==
    /\ iop = "divided" /\ b = 0 /\ a = MinOf("i8")
    /\ ires = Pair(0, TRUE)

\* l is an exact multiple of r
IsExactMultiple(l, r) == \E k \in (-Modulus)..Modulus : l = k * r

\* C3: is_multiple_of returns a boolean for every pair of operands: false
\* for a zero divisor, and otherwise true exactly when self is an exact
\* multiple of other.
C3_IsMultipleOfTotal ==
    iop = "is_multiple_of" => ires = Bool(b # 0 /\ IsExactMultiple(a, b))

C3_Witness ==
    /\ iop = "is_multiple_of" /\ ity = "i8" /\ a = MinOf("i8") /\ b = -1
    /\ ires = Panic

Finite(t, p) == ~StdIsNan(t, p) /\ ~StdIsInfinite(t, p)

\* the class kind the exponent and significand fields stand for
FieldKind(t, p) ==
    IF ExpOf(t, p) = ExpMax(t)
    THEN IF ManOf(t, p) = 0 THEN "Infinity" ELSE "NaN"
    ELSE IF ExpOf(t, p) = 0
    THEN IF ManOf(t, p) = 0 THEN "Zero" ELSE "Subnormal"
    ELSE "Normal"

ClassesOf(kind, s) ==
    IF kind = "NaN" THEN {"QuietNaN", "SignalingNaN"}
    ELSE IF s = 1 THEN {"Negative" \o kind} ELSE {"Positive" \o kind}

\* C4: floating_point_class returns one of the ten classes for every bit
\* pattern and never reaches its panic branch: one of the five predicates
\* holds of every pattern, and the class returned is the one the pattern's
\* fields stand for, with the sign of the sign bit.
C4_ClassTotal ==
    fop = "floating_point_class" =>
        /\ fcls \in Classes
        /\ \/ is_nan(fty, x) \/ is_infinite(fty, x) \/ is_zero(fty, x)
           \/ is_normal(fty, x) \/ is_subnormal(fty, x)
        /\ fcls \in ClassesOf(FieldKind(fty, x), SignOf(fty, x))

C4_Witness ==
    /\ fop = "floating_point_class"
    /\ x = Pack(fty, 1, 0, 1)
    /\ fcls = "NegativeSubnormal"

\* C5: for every x that is neither NaN nor infinite, zeros and subnormals
\* included, next_up is strictly greater than x and next_down is strictly
\* less than x, except at the greatest finite magnitudes.
C5_StepsStrictly ==
    /\ (fop = "next_up" /\ Finite(fty, x) /\ x # MAX(fty)) => FLt(fty, x, fres)
    /\ (fop = "next_down" /\ Finite(fty, x) /\ x # FNeg(fty, MAX(fty)))
           => FLt(fty, fres, x)

C5_Witness == fop = "next_up" /\ x = ZERO(fty) /\ fres = ZERO(fty)

\* the integer m * 2^0 with the sign of p
SignedInteger(t, p, m) == RoundPack(t, SignOf(t, p), m, 0, FALSE)

\* finite p with the fraction removed
TowardZero(t, p) ==
    IF Ex(t, p) >= 0 THEN p
    ELSE IF -Ex(t, p) > MB(t) + 1 THEN SignedInteger(t, p, 0)
    ELSE SignedInteger(t, p, Sig(t, p) \div 2 ^ (-Ex(t, p)))

\* finite p rounded to the nearest integer, halves away from zero
HalfAwayFromZero(t, p) ==
    IF Ex(t, p) >= 0 THEN p
    ELSE IF -Ex(t, p) > MB(t) + 1 THEN SignedInteger(t, p, 0)
    ELSE SignedInteger(t, p,
             Sig(t, p) \div 2 ^ (-Ex(t, p))
             + (IF 2 * (Sig(t, p) % 2 ^ (-Ex(t, p))) >= 2 ^ (-Ex(t, p))
                THEN 1 ELSE 0))

\* C6: rounded() and round() give, for every finite x of either sign, the
\* integer nearest to x, and the one farther from zero when x is halfway
\* between two integers.
C6_RoundHalfAway ==
    (fop \in {"rounded", "round"} /\ Finite(fty, x))
        => FEq(fty, fres, HalfAwayFromZero(fty, x))

\* -2.5, -3.0 and -4.0
MinusTwoAndHalf(t) == Pack(t, 1, Bias(t) + 1, ManSize(t) \div 4)

MinusThree(t) == Pack(t, 1, Bias(t) + 1, ManSize(t) \div 2)

MinusFour(t) == Pack(t, 1, Bias(t) + 2, 0)

C6_Witness ==
    fop = "rounded" /\ x = MinusTwoAndHalf(fty) /\ fres = MinusFour(fty)

IsInteger(t, p) ==
    /\ Finite(t, p)
    /\ \/ Sig(t, p) = 0
       \/ Ex(t, p) >= 0
       \/ (-Ex(t, p) <= MB(t) /\ Sig(t, p) % 2 ^ (-Ex(t, p)) = 0)

\* C7: for every finite x, floor(x) <= x <= ceil(x), both are integers, and
\* ceil(x) - floor(x) is 0 or 1.
C7_FloorCeilBracket ==
    /\ (fop = "floor" /\ Finite(fty, x))
           => (FLe(fty, fres, x) /\ IsInteger(fty, fres))
    /\ (fop = "ceil" /\ Finite(fty, x))
           => /\ FLe(fty, x, fres)
              /\ IsInteger(fty, fres)
              /\ \/ FEq(fty, FSub(fty, fres, floor(fty, x)), ZERO(fty))
                 \/ FEq(fty, FSub(fty, fres, floor(fty, x)), ONE(fty))

C7_Witness == fop = "ceil" /\ x = MAX(fty) /\ FLt(fty, fres, x)

\* C8: for every finite x, trunc(x) and rounded_with(TowardZero) are x with
\* its fraction removed.
C8_TruncTowardZero ==
    ((fop = "trunc" \/ (fop = "rounded_with" /\ rule = "TowardZero"))
     /\ Finite(fty, x))
        => FEq(fty, fres, TowardZero(fty, x))

C8_Witness ==
    fop = "trunc" /\ x = MinusTwoAndHalf(fty) /\ fres = MinusThree(fty)

\* u * u <= v for finite u >= 0 and v >= 0, exactly
SquareLe(t, u, v) ==
    IF Sig(t, u) = 0 THEN TRUE
    ELSE IF Sig(t, v) = 0 THEN FALSE
    ELSE IF 2 * Ex(t, u) >= Ex(t, v)
    THEN /\ 2 * Ex(t, u) - Ex(t, v) <= MB(t) + 1
         /\ Sig(t, u) * Sig(t, u) * 2 ^ (2 * Ex(t, u) - Ex(t, v)) <= Sig(t, v)
    ELSE \/ Ex(t, v) - 2 * Ex(t, u) > 2 * MB(t) + 2
         \/ Sig(t, u) * Sig(t, u) <= Sig(t, v) * 2 ^ (Ex(t, v) - 2 * Ex(t, u))

\* v <= u * u for finite u >= 0 and v >= 0, exactly
SquareGe(t, u, v) ==
    IF Sig(t, v) = 0 THEN TRUE
    ELSE IF Sig(t, u) = 0 THEN FALSE
    ELSE IF 2 * Ex(t, u) >= Ex(t, v)
    THEN \/ 2 * Ex(t, u) - Ex(t, v) > MB(t) + 1
         \/ Sig(t, u) * Sig(t, u) * 2 ^ (2 * Ex(t, u) - Ex(t, v)) >= Sig(t, v)
    ELSE /\ Ex(t, v) - 2 * Ex(t, u) <= 2 * MB(t) + 2
         /\ Sig(t, u) * Sig(t, u) >= Sig(t, v) * 2 ^ (Ex(t, v) - 2 * Ex(t, u))

\* the neighbours of a finite positive r in the format
Below(t, r) == r - 1

Above(t, r) == r + 1

\* r is within the tolerance, or within one step of the format, of the
\* square root of the finite positive v
SqrtWithin(t, v, r) ==
    /\ Finite(t, r)
    /\ FGt(t, r, ZERO(t))
    /\ \/ FLe(t, FSub(t, r, Tolerance[t]), ZERO(t))
       \/ SquareLe(t, FSub(t, r, Tolerance[t]), v)
       \/ SquareLe(t, Below(t, r), v)
    /\ \/ ~Finite(t, FAdd(t, r, Tolerance[t]))
       \/ SquareGe(t, FAdd(t, r, Tolerance[t]), v)
       \/ ~Finite(t, Above(t, r))
       \/ SquareGe(t, Above(t, r), v)

\* C9: square_root is NaN for x < 0, exactly 0.0 for x = 0, and for every
\* positive finite x a value that approximates the square root of x within
\* the tolerance.
C9_SquareRoot ==
    fop = "square_root" =>
        /\ FLt(fty, x, ZERO(fty)) => is_nan(fty, fres)
        /\ FEq(fty, x, ZERO(fty)) => fres = ZERO(fty)
        /\ (Finite(fty, x) /\ FGt(fty, x, ZERO(fty))) => SqrtWithin(fty, x, fres)

C9_Witness ==
    /\ fop = "square_root" /\ x = Tolerance[fty]
    /\ fres = FDiv(fty, x, TWO(fty))

\* NaN encodings: the top significand bit is the quiet bit
IsQuietPattern(t, p) == StdIsNan(t, p) /\ ManOf(t, p) >= ManSize(t) \div 2

IsSignalingPattern(t, p) == StdIsNan(t, p) /\ ManOf(t, p) < ManSize(t) \div 2

\* C10: a signaling NaN has is_signaling_nan() = true and class
\* SignalingNaN, a quiet NaN has class QuietNaN, and signaling_nan() returns
\* a signaling NaN.
C10_SignalingDistinguished ==
    /\ (fop = "is_signaling_nan" /\ IsSignalingPattern(fty, x)) => fflag
    /\ (fop = "floating_point_class" /\ IsSignalingPattern(fty, x))
           => fcls = "SignalingNaN"
    /\ (fop = "floating_point_class" /\ IsQuietPattern(fty, x))
           => fcls = "QuietNaN"
    /\ fop = "signaling_nan" => IsSignalingPattern(fty, fres)

C10_Witness ==
    fop = "is_signaling_nan" /\ IsSignalingPattern(fty, x) /\ ~fflag

C12_NearestOrAway ==
    (fop \in {"rounded_with", "round_with"}
     /\ rule = "ToNearestOrAwayFromZero" /\ Finite(fty, x))
        => FEq(fty, fres, HalfAwayFromZero(fty, x))

\* the value just below 1.5
BelowOneAndHalf(t) == Pack(t, 0, Bias(t), ManSize(t) \div 2 - 1)

C12_Witness ==
    /\ fop = "rounded_with" /\ rule = "ToNearestOrAwayFromZero"
    /\ fty = "f64" /\ x = BelowOneAndHalf(fty) /\ fres = TWO(fty)

\* finite p rounded to the nearest integer, halves to the even one
HalfToEven(t, p) ==
    IF Ex(t, p) >= 0 THEN p
    ELSE IF -Ex(t, p) > MB(t) + 1 THEN SignedInteger(t, p, 0)
    ELSE SignedInteger(t, p,
             Sig(t, p) \div 2 ^ (-Ex(t, p))
             + (IF \/ 2 * (Sig(t, p) % 2 ^ (-Ex(t, p))) > 2 ^ (-Ex(t, p))
                   \/ /\ 2 * (Sig(t, p) % 2 ^ (-Ex(t, p))) = 2 ^ (-Ex(t, p))
                      /\ (Sig(t, p) \div 2 ^ (-Ex(t, p))) % 2 = 1
                THEN 1 ELSE 0))

\* C13: for every finite x, rounded_with(ToNearestOrEven) gives the integer
\* closest to x, and of two equally close integers the even one
\* (2.5 -> 2.0, 3.5 -> 4.0).
C13_NearestOrEven ==
    (fop = "rounded_with" /\ rule = "ToNearestOrEven" /\ Finite(fty, x))
        => FEq(fty, fres, HalfToEven(fty, x))

\* 2.5 and 3.0
TwoAndHalf(t) == Pack(t, 0, Bias(t) + 1, ManSize(t) \div 4)

Three(t) == Pack(t, 0, Bias(t) + 1, ManSize(t) \div 2)

C13_Witness ==
    /\ fop = "rounded_with" /\ rule = "ToNearestOrEven"
    /\ x = TwoAndHalf(fty) /\ fres = Three(fty)

\* the unit in the last place of a finite p: 2^e for p = m * 2^e
UnitInLastPlace(t, p) == RoundPack(t, 0, 1, Ex(t, p), FALSE)

\* C18: for every finite x, ulp(x) is a strictly positive finite value, the
\* gap between x and the next representable value; ulp(1.0) = ulp(-1.0) =
\* ulp_of_one(); ulp(NaN) is NaN and the ulp of an infinity is above 0.
C18_UlpIsGap ==
    /\ fop = "ulp" =>
        /\ Finite(fty, x) =>
              /\ Finite(fty, fres)
              /\ FGt(fty, fres, ZERO(fty))
              /\ fres = UnitInLastPlace(fty, x)
        /\ FAbs(fty, x) = ONE(fty) => fres = ulp_of_one(fty)
        /\ StdIsNan(fty, x) => StdIsNan(fty, fres)
        /\ StdIsInfinite(fty, x) => FGt(fty, fres, ZERO(fty))
    /\ fop = "ulp_of_one" => fres = UnitInLastPlace(fty, ONE(fty))

C18_Witness == fop = "ulp" /\ x = MAX(fty) /\ fres = INFINITY(fty)

\* p and q are the same number, or both NaN
SameValue(t, p, q) == (StdIsNan(t, p) /\ StdIsNan(t, q)) \/ FEq(t, p, q)

\* C14: on f32 and on f64 alike, x.adding_product(l, r) returns x + (l * r)
\* and x.add_product(l, r) replaces x with x + (l * r).
C14_AddingProduct ==
    fop \in {"adding_product", "add_product"}
        => SameValue(fty, fres, FAdd(fty, x, FMul(fty, lhs, rhs)))

\* 6.0
Six(t) == Pack(t, 0, Bias(t) + 2, ManSize(t) \div 2)

C14_Witness ==
    /\ fop = "adding_product" /\ fty = "f64"
    /\ x = ONE(fty) /\ lhs = TWO(fty) /\ rhs = Three(fty)
    /\ fres = Six(fty)

\* position in the IEEE-754 total order, in which -0.0 precedes +0.0 and the
\* NaNs lie beyond the infinities
TotalOrderKey(t, p) == IF SignOf(t, p) = 1 THEN -(p % SignMask(t)) - 1 ELSE p

\* C15: a.is_totally_ordered_below_or_equal_to(b) is true exactly when a
\* precedes or ties with b in an ascending sort; for ordinary finite values
\* exactly when a <= b, so it is false for a = 3.0, b = 1.0.
C15_TotalOrder ==
    fop = "is_totally_ordered_below_or_equal_to" =>
        /\ fflag <=> TotalOrderKey(fty, x) <= TotalOrderKey(fty, other)
        /\ (FieldKind(fty, x) = "Normal" /\ FieldKind(fty, other) = "Normal")
               => (fflag <=> FLe(fty, x, other))

C15_Witness ==
    /\ fop = "is_totally_ordered_below_or_equal_to"
    /\ x = Three(fty) /\ other = ONE(fty) /\ fflag

\* C16: a.is_equal_to(b) is true exactly when a and b are equal values: it
\* is reflexive on every non-NaN value, both infinities included, distinct
\* values are never reported equal, and it is false when either is NaN.
C16_EqualValues ==
    fop = "is_equal_to" => (fflag <=> FEq(fty, x, other))

C16_Witness ==
    /\ fop = "is_equal_to"
    /\ x = INFINITY(fty) /\ other = INFINITY(fty) /\ ~fflag

\* the BITS-bit binary representation of v, most significant bit first,
\* two's complement for negative v
Binary(v) == [i \in 1..BITS |-> ((v % Modulus) \div 2 ^ (BITS - i)) % 2]

IsOne(bit) == bit = 1

\* the number of zeros before the first one
LeadingZeros(bits) ==
    IF \A i \in 1..BITS : bits[i] = 0 THEN BITS
    ELSE (CHOOSE i \in 1..BITS :
              bits[i] = 1 /\ \A j \in 1..(i - 1) : bits[j] = 0) - 1

\* C17: for every value x of every fixed-width integer type, signed or
\* unsigned, nonzero_bit_count(x) is the number of bits set to 1 and
\* leading_zero_bit_count(x) the number of leading zero bits in x's w-bit
\* binary representation (two's complement for negative values).
C17_BitCounts ==
    /\ iop = "nonzero_bit_count"
           => ires = Count(Len(SelectSeq(Binary(a), IsOne)))
    /\ iop = "leading_zero_bit_count"
           => ires = Count(LeadingZeros(Binary(a)))

C17_Witness ==
    /\ iop = "nonzero_bit_count" /\ ity = "i8" /\ a = -1
    /\ ires = Count(1)

\* the values met from pointer p by following the given link until null
RECURSIVE Walk(_, _, _, _)
Walk(l, p, link, fuel) ==
    IF p = null \/ p = None \/ fuel = 0 THEN <<>>
    ELSE <<l.nodes[p].value>>
         \o Walk(l, IF link = "next" THEN l.nodes[p].next ELSE l.nodes[p].prev,
                 link, fuel - 1)

\* the elements from the front, and from the back
Contents(l) == Walk(l, l.head, "next", MaxLen + 1)

Backwards(l) == Walk(l, l.tail, "prev", MaxLen + 1)

Reverse(q) == [i \in 1..Len(q) |-> q[Len(q) + 1 - i]]

\* the observers agree with the sequence of elements held
Observed(l) ==
    /\ len(l) = Len(Contents(l))
    /\ Backwards(l) = Reverse(Contents(l))
    /\ front(l) = IF Contents(l) = <<>> THEN NoneOf
                  ELSE SomeOf(Contents(l)[1])
    /\ back(l) = IF Contents(l) = <<>> THEN NoneOf
                 ELSE SomeOf(Contents(l)[Len(Contents(l))])
    /\ \A i \in 0..(len(l) - 1) : index(l, i) = Contents(l)[i + 1]

\* one call acts on the sequence of elements as on a double-ended queue
DequeStep ==
    /\ lop' = "push_front" => Contents(list') = <<larg'>> \o Contents(list)
    /\ lop' = "push_back" => Contents(list') = Append(Contents(list), larg')
    /\ lop' = "pop_front" =>
          IF Contents(list) = <<>> THEN lres' = NoneOf /\ list' = list
          ELSE /\ lres' = SomeOf(Head(Contents(list)))
               /\ Contents(list') = Tail(Contents(list))
    /\ lop' = "pop_back" =>
          IF Contents(list) = <<>> THEN lres' = NoneOf /\ list' = list
          ELSE /\ lres' = SomeOf(Contents(list)[Len(Contents(list))])
               /\ Contents(list') =
                      SubSeq(Contents(list), 1, Len(Contents(list)) - 1)

WithinCapacityStep ==
    /\ lop' = "push_front_within_capacity" =>
          IF len(list) >= capacity(list)
          THEN /\ lres' = Err
               /\ len(list') = len(list) /\ capacity(list') = capacity(list)
               /\ Contents(list') = Contents(list)
          ELSE /\ lres' = Ok
               /\ len(list') = len(list) + 1 /\ capacity(list') = capacity(list)
               /\ Contents(list') = <<larg'>> \o Contents(list)
    /\ lop' = "push_back_within_capacity" =>
          IF len(list) >= capacity(list)
          THEN /\ lres' = Err
               /\ len(list') = len(list) /\ capacity(list') = capacity(list)
               /\ Contents(list') = Contents(list)
          ELSE /\ lres' = Ok
               /\ len(list') = len(list) + 1 /\ capacity(list') = capacity(list)
               /\ Contents(list') = Append(Contents(list), larg')

\* C20: push_front_within_capacity and push_back_within_capacity return
\* Err('Maximum capacity reached') exactly when len() >= capacity() before
\* the call, leaving len(), capacity() and the contents unchanged; otherwise
\* they return Ok(()) and add the value at the front/back, increasing len()
\* by 1 without changing capacity().
C20_WithinCapacity == [][WithinCapacityStep]_vars

C20_Witness ==
    /\ lop = "push_back_within_capacity" /\ lres = Err
    /\ len(list) = capacity(list) /\ Contents(list) = <<1, 2>>

\* C21: after any sequence of push_front and push_back calls on a list
\* created by new() or with_capacity(c), len() <= capacity()
C21_LenWithinCapacity == len(list) <= capacity(list)

\* push_front on a list of capacity 0 leaves the capacity at 0
C21_Witness ==
    /\ lop = "push_front" /\ capacity(list) = 0
    /\ len(list) = 1 /\ Contents(list) = <<larg>>

====
